---- MODULE Spec2Model ----
(***************************************************************************)
(* Worker API #1 of the sqlite3 WASM bindings                              *)
(* (ext/wasm/api/sqlite3-api-worker1.js): the handle registry wState, the  *)
(* command table wMsgHandler and the dispatcher self.onmessage, driven by  *)
(* a client that posts request envelopes to the worker.                    *)
(*                                                                         *)
(* A JavaScript worker runs each onmessage call to completion, so one      *)
(* dispatched message is one step.  The handlers are sequential code over  *)
(* wState; they are written here as operators over a record s holding the  *)
(* fields of wState, the engine's DB objects (heap) and the messages       *)
(* posted so far by the running call (out).                                *)
(***************************************************************************)
EXTENDS Integers, Sequences, FiniteSets, TLC

\* ------------------------------------------------------------- bounds

\* Requests a client posts in one run.
MaxMsgs == 3
\* Rows one db.exec() call produces at most.
MaxRows == 2
\* Low-level addresses (db.pointer) the engine hands out: 1..MaxPtr.
MaxPtr == 2
\* Requests waiting in the worker's message queue at most.
MaxQueue == 2

\* ------------------------------------------------------------- values

\* The JS undefined value of a string-valued property (an absent property).
Undefined == "undefined"
\* rowNumber: null of the end-of-result-set message.
Null == -1
\* A falsy DB reference (wState.defaultDb: undefined); DB objects are 1, 2, ...
NoDb == 0
\* A falsy db.pointer (a closed DB).
NoPointer == 0

\* File names are sequences of characters, so that prefixing and
\* startsWith() are computed.  The undefined file name, '' and ':memory:'.
NoName == <<"undefined">>
EmptyName == <<>>
MemoryName == <<":", "m", "e", "m", "o", "r", "y", ":">>
\* opt.resultRows when it is no array.
NoArray == <<"undefined">>

\* ev.args when the message has none; the fields of an args object that the
\* handlers read.
NoArgs ==
  [form |-> "absent", sql |-> Undefined, rowMode |-> Undefined,
   callback |-> Undefined, resultRows |-> NoArray, filename |-> NoName,
   persistent |-> FALSE, simulateError |-> FALSE]

ObjArgs ==
  [NoArgs EXCEPT !.form = "object"]

StrArgs(sql) ==
  [NoArgs EXCEPT !.form = "string", !.sql = sql]

\* ------------------------------------------------------------- state

VARIABLES
  client,     \* the script driving the worker (fixes what it may post)
  pDir,       \* sqlite3.capi.sqlite3_web_persistent_dir(): <<>> when unsupported
  host,       \* where the module is loaded: a worker, the main thread, or
              \* a worker whose sqlite3 object has no oo1 API
  thrown,     \* the message of the exception initWorker1API() threw last
  nInits,     \* calls of initWorker1API() that returned
  nLost,      \* requests delivered while self.onmessage was not set
  installed,  \* self.onmessage is set
  inbox,      \* request envelopes posted to the worker, not yet dispatched
  outbox,     \* every message the worker has posted, in order
  behind,     \* for each request of inbox, how many were waiting ahead of
              \* it when it was posted
  nSent,      \* requests posted so far
  sent,       \* history: every request posted, in the order of posting
  defaultDb,  \* wState.defaultDb
  idSeq,      \* wState.idSeq
  idMap,      \* wState.idMap: DB object -> id
  xfer,       \* wState.xfer
  dbs,        \* wState.dbs: id -> DB object
  heap,       \* the engine's DB objects: heap[db] = [pointer, filename]
  trace       \* history: one record per dispatched message

vars ==
  <<client, pDir, host, thrown, nInits, nLost, installed, inbox, behind,
    outbox, nSent, sent, defaultDb, idSeq, idMap, xfer, dbs, heap, trace>>

\* wState and the engine as one record, threaded through the handlers.
WState ==
  [defaultDb |-> defaultDb, idSeq |-> idSeq, idMap |-> idMap, xfer |-> xfer,
   dbs |-> dbs, heap |-> heap, out |-> <<>>]

\* ------------------------------------------------------------- engine

\* What the engine does in one dispatched call: whether new DB() throws and
\* the address it hands out, whether db.fileName() or db.close() throws, how
\* many rows db.exec() produces and whether it then throws.
EngDefault ==
  [openThrows |-> FALSE, pointer |-> 1, fileNameThrows |-> FALSE,
   closeThrows |-> FALSE, rows |-> 0, execThrows |-> FALSE]

\* The value of row i of a result set: odd rows carry a blob column.
RowValue(i) ==
  IF i % 2 = 1 THEN "blob" ELSE "text"

\* Addresses not held by an open DB: a closed DB's address may be handed
\* out again.
FreePointers(h) ==
  (1..MaxPtr) \ {h[db].pointer : db \in DOMAIN h}

\* new DB(filename): a new object with a pointer and the file name.
NewDB(s, filename, eng) ==
  [s EXCEPT !.heap = Append(@, [pointer |-> eng.pointer, filename |-> filename])]

\* db.close(): the pointer and the file name are gone.
DbClose(s, db) ==
  [s EXCEPT !.heap[db] = [pointer |-> NoPointer, filename |-> NoName]]

\* ------------------------------------------------------------- wState

\* toss(): the handler stops with an Error.
Toss(s, ev, message) ==
  [threw |-> TRUE, s |-> s, ev |-> ev, result |-> [message |-> message],
   db |-> NoDb, errorClass |-> "Error"]

\* The engine throws while the handler acts on db.
EngineThrew(s, ev, message, db) ==
  [threw |-> TRUE, s |-> s, ev |-> ev, result |-> [message |-> message],
   db |-> db, errorClass |-> "SQLite3Error"]

\* A handler returns.
Return(s, ev, result, db) ==
  [threw |-> FALSE, s |-> s, ev |-> ev, result |-> result, db |-> db,
   errorClass |-> Undefined]

\* A variant that names a DB by its address alone.
MintDbIdByPointer(seq, pointer) ==
  "db#@" \o ToString(pointer)

\* 'db#'+(++wState.idSeq)+'@'+db.pointer
MintDbId(seq, pointer) ==
  "db#" \o ToString(seq) \o "@" \o ToString(pointer)

\* wState.idMap.set(db, id) with the id just minted; return id
SetDbId(s, db, id) ==
  [id |-> id, s |-> [s EXCEPT !.idSeq = @ + 1, !.idMap = (db :> id) @@ @]]

\* getDbId(db): the id of db, minted on the first call for this object.
GetDbId(s, db) ==
  IF db \in DOMAIN s.idMap
  THEN [id |-> s.idMap[db], s |-> s]
  ELSE SetDbId(s, db, MintDbId(s.idSeq + 1, s.heap[db].pointer))

\* this.dbs[getDbId(db)] = db, with g what getDbId(db) returned
AddDb(g, db) ==
  [g.s EXCEPT !.dbs = (g.id :> db) @@ @]

\* A variant that makes every opened DB the default.
SetDefaultAlways(s, db) ==
  [s EXCEPT !.defaultDb = db]

\* if(!this.defaultDb) this.defaultDb = db
SetDefault(s, db) ==
  IF s.defaultDb = NoDb THEN [s EXCEPT !.defaultDb = db] ELSE s

\* wState.open(opt), after new DB() has returned object db.
RegisterDb(s, db) ==
  SetDefault(AddDb(GetDbId(s, db), db), db)

\* wState.open(opt)
WStateOpen(s, filename, eng) ==
  IF eng.openThrows
  THEN [threw |-> TRUE, s |-> s, db |-> NoDb]
  ELSE [threw |-> FALSE,
        s |-> RegisterDb(NewDB(s, filename, eng), Len(s.heap) + 1),
        db |-> Len(s.heap) + 1]

\* delete this.dbs[id], with g what getDbId(db) returned
RemoveDb(g) ==
  [g.s EXCEPT !.dbs = [id \in (DOMAIN @) \ {g.id} |-> @[id]]]

\* delete this.dbs[getDbId(db)]
Unregister(s, db) ==
  RemoveDb(GetDbId(s, db))

\* A close of the default that hands the default on to a DB still open.
ClearDefaultPromotes(s, db) ==
  IF db = s.defaultDb
  THEN [s EXCEPT !.defaultDb = IF DOMAIN s.dbs = {} THEN NoDb
                               ELSE s.dbs[CHOOSE id \in DOMAIN s.dbs : TRUE]]
  ELSE s

\* if(db===this.defaultDb) this.defaultDb = undefined
ClearDefault(s, db) ==
  IF db = s.defaultDb THEN [s EXCEPT !.defaultDb = NoDb] ELSE s

\* wState.close(db, alsoUnlink) after the delete: db.fileName() throws when
\* the DB is not open.  The unlink of the file acts on the virtual file
\* system only, which is no part of this state.
CloseDb(s, db, eng) ==
  IF eng.fileNameThrows \/ s.heap[db].pointer = NoPointer
  THEN [threw |-> TRUE, s |-> s]
  ELSE IF eng.closeThrows
  THEN [threw |-> TRUE, s |-> s]
  ELSE [threw |-> FALSE, s |-> ClearDefault(DbClose(s, db), db)]

\* wState.close(db, alsoUnlink) for a truthy db.
WStateClose(s, db, eng) ==
  CloseDb(Unregister(s, db), db, eng)

\* A post that leaves the list as it was.
AfterPostKept(xferList) ==
  xferList

\* The list a post leaves behind: xferList.length = 0 when it was passed
\* and not empty.
AfterPost(xferList) ==
  <<>>

\* wState.post(msg, xferList): the message goes out with a copy of the list.
Post(s, msg, withXfer) ==
  IF withXfer /\ Len(s.xfer) > 0
  THEN [s EXCEPT !.out = Append(@, msg @@ [transfer |-> s.xfer]),
                 !.xfer = AfterPost(@)]
  ELSE [s EXCEPT !.out = Append(@, msg @@ [transfer |-> <<>>])]

\* wState.getDb(id, false)
GetDb(s, id) ==
  IF id \in DOMAIN s.dbs THEN s.dbs[id] ELSE NoDb

\* found || wState.defaultDb
OrDefaultDb(s, found) ==
  IF found /= NoDb THEN found ELSE s.defaultDb

\* getMsgDb(msgData, false): the DB the message is handled on.
MsgDb(s, msgData) ==
  OrDefaultDb(s, GetDb(s, msgData.dbId))

\* affirmDbOpen(db): db && db.pointer
IsOpenDb(s, db) ==
  db /= NoDb /\ s.heap[db].pointer /= NoPointer

\* getDefaultDbId()
GetDefaultDbId(s) ==
  IF s.defaultDb = NoDb THEN Undefined ELSE GetDbId(s, s.defaultDb).id

\* ------------------------------------------------------------- handlers

\* A truthy string-valued property.
Truthy(v) ==
  v /= Undefined /\ v /= ""

\* The arrow function exec installs as rc.callback.
FunctionValue == "<function>"

StartsWith(name, prefix) ==
  Len(name) >= Len(prefix) /\ SubSeq(name, 1, Len(prefix)) = prefix

\* ev.args || Object.create(null), read as an options object.
ArgsObject(ev) ==
  IF ev.args.form = "object" THEN ev.args ELSE ObjArgs

\* oargs.filename of wMsgHandler.open
OpenFilename(args, dir) ==
  IF args.filename = NoName \/ args.filename = EmptyName
     \/ args.filename = MemoryName
  THEN IF args.filename = NoName THEN EmptyName ELSE args.filename
  ELSE IF dir /= <<>>
  THEN dir \o (IF Head(args.filename) = "/"
               THEN args.filename ELSE <<"/">> \o args.filename)
  ELSE args.filename

\* rc of wMsgHandler.open, with g what getDbId(db) returned
OpenResult(g, ev, db, dir) ==
  Return(g.s, ev,
         [filename |-> g.s.heap[db].filename,
          persistent |-> dir /= <<>> /\ StartsWith(g.s.heap[db].filename, dir),
          dbId |-> g.id],
         db)

\* wMsgHandler.open(ev) after wState.open(oargs), which gave o
Opened(s, ev, o, dir) ==
  IF o.threw
  THEN EngineThrew(s, ev, "sqlite3 result code 14: unable to open database file",
                   NoDb)
  ELSE OpenResult(GetDbId(o.s, o.db), ev, o.db, dir)

\* wMsgHandler.open(ev) with args = (ev.args || Object.create(null))
OpenWith(s, ev, args, eng, dir) ==
  IF args.simulateError
  THEN Toss(s, ev, "Throwing because of simulateError flag.")
  ELSE Opened(s, ev, WStateOpen(s, OpenFilename(args, dir), eng), dir)

\* wMsgHandler.open(ev)
Open(s, ev, eng, dir) ==
  OpenWith(s, ev, ArgsObject(ev), eng, dir)

\* wMsgHandler.close(ev) after wState.close(db), which gave c
Closed(c, ev, response, db) ==
  IF c.threw
  THEN EngineThrew(c.s, ev, "close failed", db)
  ELSE Return(c.s, ev, response, db)

\* wMsgHandler.close(ev) for a truthy db, with g what getDbId(db) returned
CloseOn(g, ev, db, eng) ==
  Closed(WStateClose(g.s, db, eng), ev,
         [filename |-> g.s.heap[db].filename, dbId |-> g.id], db)

\* wMsgHandler.close(ev) with db = getMsgDb(ev, false)
CloseWith(s, ev, db, eng) ==
  IF db = NoDb
  THEN Return(s, ev, [filename |-> NoName, dbId |-> Undefined], NoDb)
  ELSE CloseOn(GetDbId(s, db), ev, db, eng)

\* wMsgHandler.close(ev)
Close(s, ev, eng) ==
  CloseWith(s, ev, MsgDb(s, ev), eng)

\* rc of wMsgHandler.exec: the options object the handler works on.
ExecRc(ev) ==
  IF ev.args.form = "string"
  THEN [ObjArgs EXCEPT !.sql = ev.args.sql]
  ELSE ArgsObject(ev)

\* if(undefined===rc.rowMode) rc.rowMode = 'array'
DefaultRowMode(rc) ==
  IF rc.rowMode = Undefined THEN [rc EXCEPT !.rowMode = "array"] ELSE rc

\* rc is ev.args itself when the message carried an options object: what the
\* handler writes to rc is then seen in ev.
WithRc(ev, rc) ==
  IF ev.args.form = "object" THEN [ev EXCEPT !.args = rc] ELSE ev

\* A variant that numbers the rows from 0: rowNumber++
PostIncrementRowNumber(rowNumber) ==
  rowNumber

\* ++rowNumber
NextRowNumber(rowNumber) ==
  rowNumber + 1

\* The installed callback: (row)=>wState.post({type, rowNumber, row}, wState.xfer)
RowCallback(s, callbackMsgType, rowNumber, row) ==
  Post(s, [kind |-> "row", type |-> callbackMsgType,
           rowNumber |-> NextRowNumber(rowNumber), row |-> row], TRUE)

\* db.exec(rc), row i: a blob column goes to db._blobXfer when that is set.
RowToXfer(s, i, blobXfer) ==
  IF blobXfer /\ RowValue(i) = "blob" THEN [s EXCEPT !.xfer = Append(@, i)]
  ELSE s

\* db.exec(rc), row i: the row goes to rc.resultRows when that is an array.
RowToResult(rc, i) ==
  IF rc.resultRows /= NoArray
  THEN [rc EXCEPT !.resultRows = Append(@, RowValue(i))] ELSE rc

\* db.exec(rc), row i: the row goes to rc.callback when that is a function.
RowToCallback(s, rc, callbackMsgType, i) ==
  IF rc.callback = FunctionValue
  THEN RowCallback(s, callbackMsgType, i - 1, RowValue(i)) ELSE s

\* db.exec(rc), rows i..n.
RECURSIVE DbExecRows(_, _, _, _, _, _)
DbExecRows(s, rc, callbackMsgType, i, n, blobXfer) ==
  IF i > n
  THEN [s |-> s, rc |-> rc]
  ELSE DbExecRows(RowToCallback(RowToXfer(s, i, blobXfer), rc, callbackMsgType, i),
                  RowToResult(rc, i), callbackMsgType, i + 1, n, blobXfer)

\* The end-of-result-set message: wState.post({type, rowNumber: null, row: undefined})
EndOfRows(s, callbackMsgType) ==
  Post(s, [kind |-> "row", type |-> callbackMsgType, rowNumber |-> Null,
           row |-> Undefined], FALSE)

\* A finally block that tests the tag instead of the installed callback.
RestoreCallbackOfTag(rc, callbackMsgType) ==
  IF Truthy(callbackMsgType) THEN [rc EXCEPT !.callback = callbackMsgType]
  ELSE rc

\* finally{ if(rc.callback) rc.callback = callbackMsgType }
RestoreCallback(rc, callbackMsgType) ==
  IF Truthy(rc.callback) THEN [rc EXCEPT !.callback = callbackMsgType] ELSE rc

\* The try block of wMsgHandler.exec after db.exec(rc) has returned, e being
\* wState and rc as db.exec left them.
ExecReturned(e, callbackMsgType) ==
  IF e.rc.callback = FunctionValue
  THEN [s |-> EndOfRows(e.s, callbackMsgType),
        rc |-> [e.rc EXCEPT !.callback = callbackMsgType]]
  ELSE e

\* A variant that posts the end-of-result-set message in the finally block.
ExecThrewPostsEnd(e, callbackMsgType) ==
  ExecReturned(e, callbackMsgType)

\* The try block of wMsgHandler.exec when db.exec(rc) has thrown.
ExecThrew(e, callbackMsgType) ==
  e

\* wMsgHandler.exec(ev): the finally block and the return, or the throw.
ExecFinally(t, ev, callbackMsgType, db, eng) ==
  IF eng.execThrows
  THEN EngineThrew(t.s, WithRc(ev, RestoreCallback(t.rc, callbackMsgType)),
                   "sqlite3 result code 1: SQL logic error", db)
  ELSE Return(t.s, WithRc(ev, RestoreCallback(t.rc, callbackMsgType)),
              RestoreCallback(t.rc, callbackMsgType), db)

\* wMsgHandler.exec(ev): the try block, e being wState and rc after the
\* rows of db.exec(rc).
ExecTry(e, ev, callbackMsgType, db, eng) ==
  ExecFinally(IF eng.execThrows THEN ExecThrew(e, callbackMsgType)
              ELSE ExecReturned(e, callbackMsgType),
              ev, callbackMsgType, db, eng)

\* if('string' === typeof callbackMsgType) rc.callback = (row)=>...
InstallCallback(rc) ==
  IF rc.callback /= Undefined THEN [rc EXCEPT !.callback = FunctionValue]
  ELSE rc

\* wMsgHandler.exec(ev) from const db = getMsgDb(ev) on.
ExecOn(s, ev, rc, db, eng) ==
  ExecTry(DbExecRows(s, InstallCallback(rc), rc.callback, 1, eng.rows,
                     Truthy(rc.callback) \/ rc.resultRows /= NoArray),
          ev, rc.callback, db, eng)

\* An exec that rejects the stmt row mode only when no callback is given.
ExecWithStmtToCallback(s, ev, rc, db, eng) ==
  IF rc.rowMode = "stmt" /\ rc.callback = Undefined
  THEN Toss(s, ev, "Invalid rowMode for 'exec': stmt mode does not work in the Worker API.")
  ELSE IF ~IsOpenDb(s, db)
  THEN Toss(s, WithRc(ev, DefaultRowMode(rc)), "DB is not opened.")
  ELSE ExecOn(s, ev, DefaultRowMode(rc), db, eng)

\* wMsgHandler.exec(ev) with rc and db = wState.getDb(ev.dbId,false) || wState.defaultDb
ExecWith(s, ev, rc, db, eng) ==
  IF rc.rowMode = "stmt"
  THEN Toss(s, ev, "Invalid rowMode for 'exec': stmt mode does not work in the Worker API.")
  ELSE IF ~IsOpenDb(s, db)
  THEN Toss(s, WithRc(ev, DefaultRowMode(rc)), "DB is not opened.")
  ELSE ExecOn(s, ev, DefaultRowMode(rc), db, eng)

\* wMsgHandler.exec(ev)
Exec(s, ev, eng) ==
  ExecWith(s, ev, ExecRc(ev), MsgDb(s, ev), eng)

\* sqlite3.config, as far as config-get reads it.
SqliteConfig ==
  [bigIntEnabled |-> FALSE, wasmfsOpfsDir |-> <<"/", "p">>]

\* wMsgHandler['config-get']()
ConfigGet(s, ev, dir) ==
  Return(s, ev,
         [k \in {"persistentDirName", "bigIntEnabled"} \cap DOMAIN SqliteConfig
            |-> SqliteConfig[k]]
         @@ [persistenceEnabled |-> dir /= <<>>],
         NoDb)

\* wMsgHandler.export(ev)
Export(s, ev) ==
  Toss(s, ev, "export() requires reimplementing for portability reasons.")

\* wMsgHandler.toss(ev)
TossCmd(s, ev) ==
  Toss(s, ev, "Testing worker exception")

\* The own function-valued properties of wMsgHandler.
HandlerNames ==
  {"open", "close", "exec", "config-get", "export", "toss"}

\* An argument of toss as args.join(' ') renders it: undefined gives the
\* empty string.
Joined(v) ==
  IF v = Undefined THEN "" ELSE v

\* The try block of self.onmessage.
Handle(s, ev, eng, dir) ==
  IF ev.type \notin HandlerNames
  THEN Toss(s, ev, "Unknown db worker message type: " \o Joined(ev.type))
  ELSE CASE ev.type = "open" -> Open(s, ev, eng, dir)
         [] ev.type = "close" -> Close(s, ev, eng)
         [] ev.type = "exec" -> Exec(s, ev, eng)
         [] ev.type = "config-get" -> ConfigGet(s, ev, dir)
         [] ev.type = "export" -> Export(s, ev)
         [] ev.type = "toss" -> TossCmd(s, ev)

\* ------------------------------------------------------------- dispatcher

\* A variant whose catch block leaves evType as it is.
ResponseTypeKept(ev, threw) ==
  ev.type

\* evType of the response: 'error' in the catch block.
ResponseType(ev, threw) ==
  IF threw THEN "error" ELSE ev.type

\* result of the response: the handler's, or the error payload of the catch
\* block.
ResponseResult(ev, h) ==
  IF h.threw
  THEN [operation |-> ev.type, message |-> h.result.message,
        errorClass |-> h.errorClass, input |-> h.ev]
  ELSE h.result

\* result.dbId
ResultDbId(result) ==
  IF "dbId" \in DOMAIN result THEN result.dbId ELSE Undefined

\* dbId of the response: let dbId = ev.dbId; if(!dbId) dbId = result.dbId || getDefaultDbId()
ResponseDbId(s, ev, result) ==
  IF Truthy(ev.dbId) THEN ev.dbId
  ELSE IF Truthy(ResultDbId(result)) THEN ResultDbId(result)
  ELSE GetDefaultDbId(s)

\* A variant that mirrors messageId for known commands only.
ResponseMessageIdOfKnown(ev) ==
  IF ev.type \in HandlerNames THEN ev.messageId ELSE Undefined

\* messageId of the response
ResponseMessageId(ev) ==
  ev.messageId

\* The response envelope of self.onmessage.
Envelope(ev, h, result) ==
  [kind |-> "response", type |-> ResponseType(ev, h.threw),
   dbId |-> ResponseDbId(h.s, ev, result),
   messageId |-> ResponseMessageId(ev), result |-> result]

\* A variant that lets an exception of the engine escape self.onmessage.
RespondUnlessEngineThrew(ev, h) ==
  IF h.threw /\ h.errorClass = "SQLite3Error" THEN h
  ELSE [h EXCEPT !.s = Post(h.s, Envelope(ev, h, ResponseResult(ev, h)), TRUE)]

\* A response that overtakes the messages its handler posted.
RespondAhead(ev, h) ==
  [h EXCEPT !.s = [Post([h.s EXCEPT !.out = <<>>],
                        Envelope(ev, h, ResponseResult(ev, h)), TRUE)
                     EXCEPT !.out = @ \o h.s.out]]

\* self.onmessage(ev) after the try/catch: the response is posted with
\* wState.xfer.
Respond(ev, h) ==
  [h EXCEPT !.s = Post(h.s, Envelope(ev, h, ResponseResult(ev, h)), TRUE)]

\* self.onmessage(ev)
OnMessage(s, ev, eng, dir) ==
  Respond(ev, Handle(s, ev, eng, dir))

\* ------------------------------------------------------------- client

\* A request envelope: {type, dbId, messageId, args}.
Req(type, dbId, messageId, args) ==
  [type |-> type, dbId |-> dbId, messageId |-> messageId, args |-> args]

\* The ids handed out so far (each reached the client in a response).
KnownIds ==
  {idMap[db] : db \in DOMAIN idMap}

\* A well-formed id that names no DB: its sequence number is never minted.
StaleId ==
  MintDbId(0, 1)

\* The client scripts.  Each posts requests of one family, so that every
\* option of the protocol is exercised without multiplying them all.
Clients ==
  {"registry", "protocol", "correlation", "stream", "files"}

\* Two longer scripts with a narrow repertoire, run on their own: one opens
\* and closes several handles, one keeps requests waiting behind a
\* streaming exec.
Handles ==
  "handles"

Pipeline ==
  "pipeline"

\* What the scripts may post next.
Repertoire(c) ==
  CASE c = "registry" ->
         {Req(t, d, Undefined, NoArgs) :
            t \in {"open", "close"}, d \in {Undefined, StaleId} \cup KnownIds}
         \cup {Req("exec", d, Undefined, StrArgs("SELECT 1")) :
                 d \in {Undefined, StaleId} \cup KnownIds}
    [] c = "protocol" ->
         {Req(t, Undefined, Undefined, NoArgs) :
            t \in {"open", "close", "exec", "config-get", "export", "toss",
                   "frobnicate", Undefined}}
         \cup {Req("open", Undefined, Undefined,
                   [ObjArgs EXCEPT !.simulateError = TRUE])}
    [] c = "correlation" ->
         {Req(t, Undefined, m, NoArgs) :
            t \in {"open", "frobnicate"}, m \in {Undefined, "m1", "m2"}}
    [] c = "stream" ->
         {Req("open", Undefined, Undefined, NoArgs)}
         \cup {Req("exec", Undefined, Undefined,
                   [ObjArgs EXCEPT !.sql = "SELECT a FROM t", !.callback = cb,
                                   !.resultRows = rr, !.rowMode = rm]) :
                 cb \in {Undefined, "", "row"}, rr \in {NoArray, <<>>},
                 rm \in {Undefined, "stmt"}}
    [] c = "files" ->
         {Req("open", Undefined, Undefined,
              [ObjArgs EXCEPT !.filename = f, !.persistent = p]) :
            f \in {NoName, EmptyName, MemoryName, <<"f">>, <<"/", "f">>},
            p \in BOOLEAN}
    [] c = Handles ->
         {Req("open", Undefined, Undefined, NoArgs)}
         \cup {Req("close", d, Undefined, NoArgs) :
                 d \in {Undefined} \cup KnownIds}
         \cup {Req("exec", d, Undefined, StrArgs("SELECT 1")) :
                 d \in {Undefined} \cup KnownIds}
    [] c = Pipeline ->
         {Req("open", Undefined, Undefined, NoArgs),
          Req("toss", Undefined, "m1", NoArgs),
          Req("exec", Undefined, "m2",
              [ObjArgs EXCEPT !.sql = "SELECT a FROM t", !.callback = "row"])}

\* The persistent-storage root of the environments a script runs in.
Dirs(c) ==
  IF c = "files" THEN {<<>>, <<"/", "p">>} ELSE {<<>>}

\* Requests a script posts in one run.
Quota(c) ==
  CASE c \in {"registry", "protocol", "correlation"} -> MaxMsgs
    [] c = "stream" -> MaxMsgs - 1
    [] c = "files" -> MaxMsgs - 2
    [] c = Handles -> MaxMsgs + 1
    [] c = Pipeline -> MaxMsgs

\* Calls into the worker in one run, posts and calls of initWorker1API()
\* together: the script's requests after one initWorker1API(), or fewer
\* requests and further calls of initWorker1API().
Calls(c) ==
  Quota(c) + 1

\* What the engine may do while ev is handled.  Rows that reach neither a
\* callback nor resultRows leave nothing behind, so a statement without
\* either is taken to produce none.
EngineFor(ev) ==
  CASE ev.type = "open" ->
         {[EngDefault EXCEPT !.openThrows = TRUE]}
         \cup {[EngDefault EXCEPT !.pointer = p] : p \in FreePointers(heap)}
    [] ev.type = "close" ->
         {EngDefault, [EngDefault EXCEPT !.fileNameThrows = TRUE],
          [EngDefault EXCEPT !.closeThrows = TRUE]}
    [] ev.type = "exec" ->
         {[EngDefault EXCEPT !.rows = n, !.execThrows = b] :
            n \in IF ev.args.callback = Undefined /\ ev.args.resultRows = NoArray
                  THEN {0} ELSE 0..MaxRows,
            b \in BOOLEAN}
    [] OTHER -> {EngDefault}

\* ------------------------------------------------------------- actions

\* Where the module may be loaded.
Hosts ==
  {"worker", "main", "no-oo1"}

\* The state when the worker module is loaded and initWorker1API has not
\* run yet, under one of the given scripts.
InitOf(scripts) ==
  /\ client \in scripts
  /\ pDir \in Dirs(client)
  /\ host \in Hosts
  /\ thrown = Undefined
  /\ nInits = 0
  /\ nLost = 0
  /\ installed = FALSE
  /\ inbox = <<>>
  /\ behind = <<>>
  /\ outbox = <<>>
  /\ nSent = 0
  /\ sent = <<>>
  /\ defaultDb = NoDb
  /\ idSeq = 0
  /\ idMap = [db \in {} |-> Undefined]
  /\ xfer = <<>>
  /\ dbs = [id \in {} |-> NoDb]
  /\ heap = <<>>
  /\ trace = <<>>

\* The worker module is loaded; any of the scripts drives it.
Init ==
  InitOf(Clients)

\* The client posts a request; the worker's queue holds it.
ClientPost ==
  /\ nSent < Quota(client)
  /\ nSent + nInits < Calls(client)
  /\ Len(inbox) < MaxQueue
  /\ \E req \in Repertoire(client) :
       /\ inbox' = Append(inbox, req)
       /\ sent' = Append(sent, req)
  /\ behind' = Append(behind, Len(inbox))
  /\ nSent' = nSent + 1
  /\ UNCHANGED <<client, pDir, host, thrown, nInits, nLost, installed, outbox,
                 defaultDb, idSeq, idMap, xfer, dbs, heap, trace>>

\* A message event is delivered while self.onmessage is not set: nothing
\* handles it and the request is lost.
Unhandled ==
  /\ ~installed
  /\ inbox /= <<>>
  /\ inbox' = Tail(inbox)
  /\ behind' = Tail(behind)
  /\ nLost' = nLost + 1
  /\ UNCHANGED <<client, pDir, host, thrown, nInits, installed, outbox, nSent,
                 sent, defaultDb, idSeq, idMap, xfer, dbs, heap, trace>>

\* The readiness message: {type:'sqlite3-api', result:'worker1-ready'}.
Ready ==
  [kind |-> "ready", type |-> "sqlite3-api", result |-> "worker1-ready"]

\* An initWorker1API that sets self.onmessage and announces nothing.
InitWorker1APIUnannounced ==
  /\ host = "worker"
  /\ nSent + nInits < Calls(client)
  /\ nInits' = nInits + 1
  /\ installed' = TRUE
  /\ defaultDb' = NoDb
  /\ idSeq' = 0
  /\ idMap' = [db \in {} |-> Undefined]
  /\ xfer' = <<>>
  /\ dbs' = [id \in {} |-> NoDb]
  /\ UNCHANGED <<client, pDir, host, thrown, nLost, inbox, behind, outbox,
                 nSent, sent, heap, trace>>

\* sqlite3.initWorker1API() in a worker with the oo1 API: a new wState is
\* built, self.onmessage is set to a handler over it, then the readiness
\* message is posted.  Nothing keeps it from being called again: the DBs
\* of the wState before stay open in the engine, unregistered.
InitWorker1API ==
  /\ host = "worker"
  /\ nSent + nInits < Calls(client)
  /\ nInits' = nInits + 1
  /\ installed' = TRUE
  /\ defaultDb' = NoDb
  /\ idSeq' = 0
  /\ idMap' = [db \in {} |-> Undefined]
  /\ xfer' = <<>>
  /\ dbs' = [id \in {} |-> NoDb]
  /\ outbox' = Append(outbox, Ready)
  /\ UNCHANGED <<client, pDir, host, thrown, nLost, inbox, behind, nSent,
                 sent, heap, trace>>

\* What initWorker1API() throws on host h before it sets anything.
InitError(h) ==
  IF h = "main"
  THEN "Cannot initalize the sqlite3 worker API in the main thread."
  ELSE "Missing this.sqlite3.oo1 OO API."

\* sqlite3.initWorker1API() where importScripts is no function or
\* sqlite3.oo1 is missing: it throws, nothing is set or posted.
InitWorker1APIThrows ==
  /\ host /= "worker"
  /\ thrown' = InitError(host)
  /\ UNCHANGED <<client, pDir, host, nInits, nLost, installed, inbox, behind,
                 outbox, nSent, sent, defaultDb, idSeq, idMap, xfer, dbs,
                 heap, trace>>

\* The key of wMsgHandler a message type selects, "?" when there is none.
HandlerKey(type) ==
  IF type \in HandlerNames THEN type ELSE "?"

\* The engine's part in a call: none when the handler never reached it.
EngineUsed(r, eng) ==
  IF r.db /= NoDb \/ r.errorClass = "SQLite3Error" THEN eng ELSE EngDefault

\* A queue that delivers the message posted last.
ArrivedLast(queue) ==
  queue[Len(queue)]

\* The message event self.onmessage is called with next: the worker's
\* event loop delivers the messages in the order they were posted.
Arrived(queue) ==
  Head(queue)

\* One call of self.onmessage, for the message at the head of the queue.
\* The trace records the request, how many calls of initWorker1API() came
\* before, whether the handler threw, the DB object it acted on, the
\* engine's part, wState before and after, and where the call's messages
\* lie in outbox.
Dispatch(key) ==
  /\ installed
  /\ inbox /= <<>>
  /\ HandlerKey(Arrived(inbox).type) = key
  /\ \E eng \in EngineFor(Arrived(inbox)) :
       \E r \in {OnMessage(WState, Arrived(inbox), eng, pDir)} :
          /\ inbox' = Tail(inbox)
          /\ behind' = Tail(behind)
          /\ outbox' = outbox \o r.s.out
          /\ defaultDb' = r.s.defaultDb
          /\ idSeq' = r.s.idSeq
          /\ idMap' = r.s.idMap
          /\ xfer' = r.s.xfer
          /\ dbs' = r.s.dbs
          /\ heap' = r.s.heap
          /\ trace' = Append(trace,
                             [req |-> Arrived(inbox), threw |-> r.threw,
                              init |-> nInits,
                              db |-> r.db,
                              eng |-> EngineUsed(r, eng),
                              preDefault |-> defaultDb, preDbs |-> dbs,
                              preIdSeq |-> idSeq,
                              preHeap |-> heap, postDefault |-> r.s.defaultDb,
                              postDbs |-> r.s.dbs, postIdSeq |-> r.s.idSeq,
                              first |-> Len(outbox) + 1,
                              last |-> Len(outbox) + Len(r.s.out)])
  /\ UNCHANGED <<client, pDir, host, thrown, nInits, nLost, installed, nSent,
                 sent>>

\* self.onmessage on a message that selects wMsgHandler.open.
OnOpen ==
  /\ inbox /= <<>>
  /\ Dispatch("open")

\* self.onmessage on a message that selects wMsgHandler.close.
OnClose ==
  /\ inbox /= <<>>
  /\ Dispatch("close")

\* self.onmessage on a message that selects wMsgHandler.exec.
OnExec ==
  /\ inbox /= <<>>
  /\ Dispatch("exec")

\* self.onmessage on a message that selects wMsgHandler.'config-get'.
OnConfigGet ==
  /\ inbox /= <<>>
  /\ Dispatch("config-get")

\* self.onmessage on a message that selects wMsgHandler.export.
OnExport ==
  /\ inbox /= <<>>
  /\ Dispatch("export")

\* self.onmessage on a message that selects wMsgHandler.toss.
OnToss ==
  /\ inbox /= <<>>
  /\ Dispatch("toss")

\* self.onmessage on a message that selects no handler.
OnUnknown ==
  /\ inbox /= <<>>
  /\ Dispatch("?")


Next ==
  \/ ClientPost
  \/ Unhandled
  \/ InitWorker1API
  \/ InitWorker1APIThrows
  \/ OnOpen
  \/ OnClose
  \/ OnExec
  \/ OnConfigGet
  \/ OnExport
  \/ OnToss
  \/ OnUnknown

Spec == Init /\ [][Next]_vars

\* The worker under the script that opens and closes several handles.
InitHandles ==
  InitOf({Handles})

NextHandles ==
  \/ ClientPost
  \/ Unhandled
  \/ InitWorker1API
  \/ InitWorker1APIThrows
  \/ OnOpen
  \/ OnClose
  \/ OnExec

SpecHandles == InitHandles /\ [][NextHandles]_vars

\* The worker under the script that queues requests around a streaming exec.
InitPipeline ==
  InitOf({Pipeline})

NextPipeline ==
  \/ ClientPost
  \/ Unhandled
  \/ InitWorker1API
  \/ InitWorker1APIThrows
  \/ OnOpen
  \/ OnExec
  \/ OnToss

SpecPipeline == InitPipeline /\ [][NextPipeline]_vars

\* ------------------------------------------------------------- claims

\* The dispatched messages, in order.
Dispatched ==
  1..Len(trace)

\* The response envelope of dispatched message i: the last message of its call.
Response(i) ==
  outbox[trace[i].last]

\* The end-of-result-set message: rowNumber null, row undefined.
IsEnd(m) ==
  m.kind = "row" /\ m.rowNumber = Null /\ m.row = Undefined

\* The end-of-result-set messages posted by call i.
Ends(i) ==
  {k \in trace[i].first..trace[i].last : IsEnd(outbox[k])}

\* Message i carries a dbId that names no open DB.
NamesNoOpenDb(i) ==
  Truthy(trace[i].req.dbId) /\ trace[i].req.dbId \notin DOMAIN trace[i].preDbs

\* Message i is an exec with a string callback whose handler reached db.exec().
Streaming(i) ==
  /\ trace[i].req.type = "exec"
  /\ trace[i].req.args.callback /= Undefined
  /\ trace[i].db /= NoDb

\* C1: every dispatched message, whatever its type and whether or not its
\* handler threw, is answered by exactly one response envelope, the last
\* message of its call; the messages before it in the call are row messages.
C1_OneResponsePerMessage ==
  /\ Cardinality({k \in 1..Len(outbox) : outbox[k].kind = "response"}) = Len(trace)
  /\ \A i \in Dispatched :
       /\ trace[i].first <= trace[i].last
       /\ outbox[trace[i].last].kind = "response"
       /\ \A k \in trace[i].first..(trace[i].last - 1) : outbox[k].kind = "row"

\* C1 witness: an exec streamed rows, then the engine threw, and the call
\* still ended with its response.
C1_Witness ==
  \E i \in Dispatched :
    /\ Streaming(i) /\ trace[i].threw
    /\ trace[i].last > trace[i].first
    /\ Response(i).kind = "response"

\* An open that succeeded.
Opened_(i) ==
  trace[i].req.type = "open" /\ ~trace[i].threw

\* Calls i and j were handled by the same handler: no initWorker1API() came
\* between them.
SameInit(i, j) ==
  trace[i].init = trace[j].init

\* C2: the ids the worker returns for successful opens are pairwise
\* different, whatever opens, closes and execs lie between them.  (Each
\* call of initWorker1API() builds a new wState, whose ids start again.)
C2_DistinctIds ==
  \A i, j \in Dispatched :
    i < j /\ Opened_(i) /\ Opened_(j) /\ SameInit(i, j)
      => Response(i).result.dbId /= Response(j).result.dbId

\* C2 witness: two opens got the same address from the engine (the first DB
\* was closed in between) and different ids.
C2_Witness ==
  \E i, j \in Dispatched :
    /\ i < j /\ Opened_(i) /\ Opened_(j) /\ SameInit(i, j)
    /\ trace[i].eng.pointer = trace[j].eng.pointer
    /\ Response(i).result.dbId /= Response(j).result.dbId

\* C3: an exec whose dbId names no open DB acts on no DB and is answered
\* with an error.
C3_StaleIdTouchesNothing ==
  \A i \in Dispatched :
    trace[i].req.type = "exec" /\ NamesNoOpenDb(i)
      => trace[i].db = NoDb /\ Response(i).type = "error"

\* C4: a close whose dbId names no open DB is answered with a close response
\* whose filename and dbId are undefined.
C4_CloseOfUnknownIdIsNoOp ==
  \A i \in Dispatched :
    trace[i].req.type = "close" /\ NamesNoOpenDb(i)
      => /\ Response(i).type = "close"
         /\ Response(i).result.filename = NoName
         /\ Response(i).result.dbId = Undefined

\* The dbId the claimed precedence gives response i: the handler's result's,
\* else the request's, else the default's after the call, else none.
PrecedenceDbId(i) ==
  IF Truthy(ResultDbId(Response(i).result)) THEN ResultDbId(Response(i).result)
  ELSE IF Truthy(trace[i].req.dbId) THEN trace[i].req.dbId
  ELSE IF trace[i].postDefault /= NoDb THEN idMap[trace[i].postDefault]
  ELSE Undefined

\* C5: the dbId of every response follows the precedence result, request,
\* default, none.
C5_ResultDbIdFirst ==
  \A i \in Dispatched : Response(i).dbId = PrecedenceDbId(i)

\* C6: a successful exec with a string callback whose statement produced n
\* rows posts n row messages of that type numbered 1..n, then the
\* end-of-result-set message of that type, then its response.
C6_RowsThenEndThenResponse ==
  \A i \in Dispatched :
    Streaming(i) /\ ~trace[i].threw
      => /\ trace[i].last = trace[i].first + trace[i].eng.rows + 1
         /\ \A k \in 1..trace[i].eng.rows :
              /\ outbox[trace[i].first + k - 1].kind = "row"
              /\ outbox[trace[i].first + k - 1].type = trace[i].req.args.callback
              /\ outbox[trace[i].first + k - 1].rowNumber = k
              /\ outbox[trace[i].first + k - 1].row = RowValue(k)
         /\ IsEnd(outbox[trace[i].last - 1])
         /\ outbox[trace[i].last - 1].type = trace[i].req.args.callback
         /\ Response(i).kind = "response"
         /\ Response(i).type = "exec"

\* C6 witness: a successful streaming exec of two rows or more.
C6_Witness ==
  \E i \in Dispatched :
    /\ Streaming(i) /\ ~trace[i].threw
    /\ trace[i].eng.rows >= 2
    /\ IsEnd(outbox[trace[i].last - 1])

\* C7 as claimed: every exec with a string callback that reached db.exec()
\* posts one end-of-result-set message, right before its response, whether
\* db.exec() returned or threw.
C7_EndAlwaysPosted ==
  \A i \in Dispatched :
    Streaming(i) => Ends(i) = {trace[i].last - 1}

\* C7 amended: the end-of-result-set message is posted, once and right before
\* the response, when db.exec() returned; when db.exec() threw there is none,
\* and the rows posted so far are followed by the error response.
C7_EndOnlyOnReturn ==
  \A i \in Dispatched :
    Streaming(i)
      => IF trace[i].threw
         THEN /\ Ends(i) = {}
              /\ trace[i].last = trace[i].first + trace[i].eng.rows
              /\ Response(i).type = "error"
         ELSE Ends(i) = {trace[i].last - 1}

\* C7 witness: db.exec() threw after a row was streamed.
C7_Witness ==
  \E i \in Dispatched :
    /\ Streaming(i) /\ trace[i].threw /\ trace[i].eng.execThrows
    /\ trace[i].eng.rows >= 1
    /\ outbox[trace[i].first].kind = "row"
    /\ Ends(i) = {}

\* The DB message i resolves to, from wState before the call.
ResolvedBefore(i) ==
  IF trace[i].req.dbId \in DOMAIN trace[i].preDbs
  THEN trace[i].preDbs[trace[i].req.dbId]
  ELSE trace[i].preDefault

\* The DB message i resolves to is open before the call.
ResolvesToOpenDb(i) ==
  /\ ResolvedBefore(i) /= NoDb
  /\ trace[i].preHeap[ResolvedBefore(i)].pointer /= NoPointer

\* Request i failed: no such command, a command that always throws, the
\* simulated error, the stmt row mode, no open DB to act on, or the engine
\* threw.
Failed(i) ==
  \/ trace[i].req.type \notin HandlerNames
  \/ trace[i].req.type \in {"export", "toss"}
  \/ trace[i].req.type = "open" /\ trace[i].req.args.simulateError
  \/ trace[i].req.type = "open" /\ trace[i].eng.openThrows
  \/ trace[i].req.type = "exec" /\ trace[i].req.args.rowMode = "stmt"
  \/ trace[i].req.type = "exec" /\ ~ResolvesToOpenDb(i)
  \/ trace[i].req.type = "exec" /\ trace[i].eng.execThrows
  \/ /\ trace[i].req.type = "close" /\ ResolvedBefore(i) /= NoDb
     /\ \/ ~ResolvesToOpenDb(i)
        \/ trace[i].eng.fileNameThrows
        \/ trace[i].eng.closeThrows

\* C8: a response has type 'error' exactly when its request failed, and then
\* its result names the request's type as operation; otherwise its type is
\* the request's.
C8_ErrorIffFailed ==
  \A i \in Dispatched :
    /\ Response(i).kind = "response"
    /\ (Response(i).type = "error") <=> Failed(i)
    /\ Failed(i) <=> trace[i].threw
    /\ Response(i).type = "error"
         => Response(i).result.operation = trace[i].req.type
    /\ Response(i).type /= "error" => Response(i).type = trace[i].req.type

\* C8 witness: one request failed in the engine and another succeeded.
C8_Witness ==
  \E i, j \in Dispatched :
    /\ Failed(i) /\ trace[i].db /= NoDb /\ Response(i).type = "error"
    /\ Response(i).result.operation = trace[i].req.type
    /\ ~Failed(j) /\ Response(j).type = trace[j].req.type

\* C9: every response carries the messageId of its request, undefined when
\* the request had none.
C9_MessageIdMirrored ==
  \A i \in Dispatched : Response(i).messageId = trace[i].req.messageId

\* C9 witness: two requests with the messageIds 'm1' and 'm2' were in the
\* queue together before any response was posted; the first one has been
\* answered with 'm1' while the second one is still waiting.
C9_Witness ==
  /\ Len(trace) = 1 /\ Len(inbox) = 1 /\ behind[1] = 1
  /\ trace[1].req.messageId = "m1" /\ Response(1).messageId = "m1"
  /\ inbox[1].messageId = "m2"

\* The calls after which no default was set.
Cleared ==
  {i \in Dispatched : trace[i].postDefault = NoDb}

\* The successful opens after the default was last cleared, by a call or
\* by initWorker1API().
OpensSinceCleared ==
  {i \in Dispatched :
     Opened_(i) /\ trace[i].init = nInits /\ \A c \in Cleared : c < i}

\* C10: the default is the DB of the first open since the default was last
\* cleared or the worker API initialized (none when there was no such
\* open); a call that acts on another
\* DB than the default leaves the default as it was, an open sets it only
\* when none is set; and an exec or close without dbId acts on the default
\* when one is set.
C10_DefaultIsFirstOpened ==
  /\ IF OpensSinceCleared = {} THEN defaultDb = NoDb
     ELSE defaultDb = trace[CHOOSE i \in OpensSinceCleared :
                              \A j \in OpensSinceCleared : i <= j].db
  /\ \A i \in Dispatched :
       /\ trace[i].db /= trace[i].preDefault /\ trace[i].preDefault /= NoDb
            => trace[i].postDefault = trace[i].preDefault
       /\ Opened_(i) /\ trace[i].preDefault = NoDb
            => trace[i].postDefault = trace[i].db
       /\ /\ trace[i].req.type \in {"exec", "close"}
          /\ ~Truthy(trace[i].req.dbId)
          /\ trace[i].preDefault /= NoDb
          /\ trace[i].req.args.rowMode /= "stmt"
         => trace[i].db = trace[i].preDefault

\* C10 witness: two DBs are open, the first one is the default, and an exec
\* without dbId ran on it.
C10_Witness ==
  \E i \in Dispatched :
    /\ trace[i].req.type = "exec" /\ ~Truthy(trace[i].req.dbId)
    /\ trace[i].db = defaultDb /\ defaultDb = 1
    /\ Cardinality(DOMAIN dbs) = 2

\* Call i closed the default DB: the close returned and acted on it.
ClosedDefault(i) ==
  /\ trace[i].req.type = "close" /\ ~trace[i].threw
  /\ trace[i].db /= NoDb /\ trace[i].db = trace[i].preDefault

\* Call i is an exec without dbId that found no default set.
ExecWithoutDefault(i) ==
  /\ trace[i].req.type = "exec" /\ ~Truthy(trace[i].req.dbId)
  /\ trace[i].preDefault = NoDb

\* C11: a close of the default clears it and promotes no other DB, the
\* other DBs staying registered; while no default is set an exec without
\* dbId is answered by the error 'DB is not opened.' and reaches no DB,
\* whereas an exec that names a registered DB by its id runs on that DB; and
\* the next successful open becomes the default.
C11_ClosedDefaultIsNotReplaced ==
  \A i \in Dispatched :
    /\ ClosedDefault(i)
         => /\ trace[i].postDefault = NoDb
            /\ \A id \in DOMAIN trace[i].preDbs :
                 trace[i].preDbs[id] /= trace[i].db
                   => /\ id \in DOMAIN trace[i].postDbs
                      /\ trace[i].postDbs[id] = trace[i].preDbs[id]
    /\ ExecWithoutDefault(i)
         => /\ trace[i].db = NoDb
            /\ Response(i).type = "error"
            /\ Response(i).result.message = "DB is not opened."
    /\ /\ trace[i].req.type = "exec" /\ trace[i].preDefault = NoDb
       /\ trace[i].req.dbId \in DOMAIN trace[i].preDbs
       /\ trace[i].req.args.rowMode /= "stmt"
      => trace[i].db = trace[i].preDbs[trace[i].req.dbId]
    /\ Opened_(i) /\ trace[i].preDefault = NoDb
         => trace[i].postDefault = trace[i].db

\* C11 witness: the default was closed while another DB stayed open; after
\* that an exec without dbId got the error although the other DB was still
\* registered.
C11_Witness ==
  \E i, j \in Dispatched :
    /\ i < j
    /\ ClosedDefault(i) /\ DOMAIN trace[i].postDbs /= {}
    /\ ExecWithoutDefault(j) /\ DOMAIN trace[j].preDbs /= {}
    /\ Response(j).type = "error"

\* Calls i and i+1 are the same close request with an explicit dbId, and the
\* engine raised nothing in either.
CloseTwice(i) ==
  /\ i + 1 \in Dispatched
  /\ trace[i].req.type = "close" /\ Truthy(trace[i].req.dbId)
  /\ trace[i + 1].req = trace[i].req
  /\ trace[i].eng = EngDefault /\ trace[i + 1].eng = EngDefault

\* C12: when the same close request with an explicit dbId is processed
\* twice in a row, the second call closes no DB, leaves wState.dbs and the
\* default as the first call left them, and is not answered by an error.
C12_CloseIsIdempotent ==
  \A i \in Dispatched :
    CloseTwice(i)
      => /\ trace[i + 1].db = NoDb
         /\ trace[i + 1].postDbs = trace[i].postDbs
         /\ trace[i + 1].postDefault = trace[i].postDefault
         /\ Response(i + 1).type /= "error"

\* C13: a request answered by an error response leaves wState.dbs, the
\* default and idSeq as they were before it.
C13_ErrorLeavesRegistry ==
  \A i \in Dispatched :
    Response(i).type = "error"
      => /\ trace[i].postDbs = trace[i].preDbs
         /\ trace[i].postDefault = trace[i].preDefault
         /\ trace[i].postIdSeq = trace[i].preIdSeq

\* Call i is an exec whose args ask for the stmt row mode.
StmtMode(i) ==
  trace[i].req.type = "exec" /\ trace[i].req.args.rowMode = "stmt"

\* C14: an exec with rowMode 'stmt' is answered by the error about the
\* invalid row mode, whatever its callback and resultRows and whether or not
\* a DB is open; it reaches no DB, posts nothing but the response and
\* leaves the engine's DBs as they were.
C14_StmtModeIsRejected ==
  \A i \in Dispatched :
    StmtMode(i)
      => /\ Response(i).type = "error"
         /\ Response(i).result.operation = "exec"
         /\ Response(i).result.message
              = "Invalid rowMode for 'exec': stmt mode does not work in the Worker API."
         /\ trace[i].db = NoDb
         /\ trace[i].first = trace[i].last
         /\ i = Len(trace) => heap = trace[i].preHeap

\* C14 witness: with a DB open, an exec with rowMode 'stmt', a callback and
\* a resultRows array was rejected without a row message.
C14_Witness ==
  \E i \in Dispatched :
    /\ StmtMode(i) /\ trace[i].preDefault /= NoDb
    /\ trace[i].req.args.callback = "row"
    /\ trace[i].req.args.resultRows /= NoArray
    /\ Response(i).type = "error" /\ trace[i].first = trace[i].last

\* The response to call i answers request req: it mirrors its messageId and
\* names its type, as the response's type or as the failed operation.
Answers(i, req) ==
  /\ Response(i).kind = "response"
  /\ Response(i).messageId = req.messageId
  /\ IF Response(i).type = "error"
     THEN Response(i).result.operation = req.type
     ELSE Response(i).type = req.type

\* C15: the requests are dispatched one at a time in the order they were
\* posted, however many were waiting at once: the requests delivered
\* before self.onmessage was set are lost, the i-th call handles the i-th
\* request posted after them and its response answers that request, the
\* queue holds the requests posted after it in their order, every message
\* of a call precedes every message of the next, and each call of a handler
\* starts from the wState its call before left.
C15_InOrder ==
  /\ nLost + Len(trace) <= Len(sent)
  /\ inbox = SubSeq(sent, nLost + Len(trace) + 1, Len(sent))
  /\ \A i \in Dispatched :
       /\ trace[i].req = sent[nLost + i]
       /\ Answers(i, sent[nLost + i])
       /\ i + 1 \in Dispatched
            => /\ trace[i].last < trace[i + 1].first
               /\ SameInit(i, i + 1)
                    => /\ trace[i + 1].preDbs = trace[i].postDbs
                       /\ trace[i + 1].preDefault = trace[i].postDefault
                       /\ trace[i + 1].preIdSeq = trace[i].postIdSeq

\* C15 witness: an open and an exec were both waiting before any response
\* was posted; the open was answered first with a new DB, which is the
\* default the waiting exec will find.
C15_Witness ==
  /\ Len(trace) = 1 /\ Len(inbox) = 1 /\ behind[1] = 1
  /\ Opened_(1) /\ Response(1).type = "open"
  /\ inbox[1].type = "exec" /\ inbox[1] = sent[nLost + 2]
  /\ defaultDb = trace[1].db /\ dbs = trace[1].postDbs

\* The filename the claim expects the engine to get for args under root dir.
FlaggedFilename(args, dir) ==
  IF args.filename = NoName THEN EmptyName
  ELSE IF args.filename = EmptyName \/ args.filename = MemoryName
  THEN args.filename
  ELSE IF dir /= <<>> /\ args.persistent = TRUE
  THEN dir \o (IF Head(args.filename) = "/"
               THEN args.filename ELSE <<"/">> \o args.filename)
  ELSE args.filename

\* C16: the DB of a successful open was constructed with the filename
\* prefixed by the persistent-storage root only when there is a root and
\* args.persistent is set, and with the filename as given otherwise; an
\* empty or ':memory:' filename is used as given.
C16_PrefixOnlyWhenFlagged ==
  \A i \in Dispatched :
    Opened_(i)
      => heap[trace[i].db].filename
           = FlaggedFilename(ArgsObject(trace[i].req), pDir)

\* The buffers message k was posted with.
Transferred(k) ==
  {outbox[k].transfer[n] : n \in 1..Len(outbox[k].transfer)}

\* The messages of call i.
Burst(i) ==
  trace[i].first..trace[i].last

\* C17: wState.xfer is empty after every post, so it is empty between
\* calls, whether the call threw or not: a message carries only buffers
\* collected since the post before it.  A row message carries at most the
\* buffer of its own row, the end-of-result-set message none, no buffer
\* goes out with two messages of a call, and a call that got no row from
\* the engine transfers nothing.
C17_XferEmptyAfterPost ==
  /\ xfer = <<>>
  /\ \A i \in Dispatched :
       /\ \A k \in Burst(i) :
            /\ outbox[k].kind = "row" /\ ~IsEnd(outbox[k])
                 => Transferred(k) \subseteq {outbox[k].rowNumber}
            /\ IsEnd(outbox[k]) => Transferred(k) = {}
            /\ \A l \in Burst(i) :
                 k < l => Transferred(k) \cap Transferred(l) = {}
       /\ trace[i].db = NoDb \/ trace[i].eng.rows = 0
            => Transferred(trace[i].last) = {}

\* C17 witness: an exec streamed a blob row, which went out with its buffer,
\* then a second row, the end message and the response, all without a
\* buffer.
C17_Witness ==
  \E i \in Dispatched :
    /\ Streaming(i) /\ trace[i].eng.rows = 2
    /\ trace[i].last = trace[i].first + 3
    /\ Transferred(trace[i].first) = {1}
    /\ Transferred(trace[i].first + 1) = {}
    /\ Transferred(trace[i].last) = {}
    /\ xfer = <<>>

\* The readiness announcement.
IsReady(m) ==
  m.kind = "ready" /\ m.type = "sqlite3-api" /\ m.result = "worker1-ready"

\* The calls of initWorker1API() that have announced themselves.
Announced ==
  {k \in 1..Len(outbox) : IsReady(outbox[k])}

\* C18: nothing is posted and no message handled before self.onmessage is
\* installed; initWorker1API() installs it and posts the readiness
\* announcement in one step, once per call, so the announcement of the
\* startup is the first message posted and precedes every row message and
\* every response; and nothing is installed or posted where
\* initWorker1API() throws.
C18_ReadyOnceAndFirst ==
  /\ installed <=> nInits >= 1
  /\ Cardinality(Announced) = nInits
  /\ ~installed => outbox = <<>> /\ trace = <<>>
  /\ installed
       => /\ IsReady(outbox[1])
          /\ \A k \in 2..Len(outbox) :
               outbox[k].kind \in {"row", "response"} \/ IsReady(outbox[k])
  /\ \A i \in Dispatched :
       Cardinality({k \in Announced : k < trace[i].first}) = trace[i].init
  /\ host /= "worker" => ~installed

\* C18 witness: the announcement is followed by a response, row messages
\* and a second response, with initWorker1API() called once.
C18_Witness ==
  /\ installed /\ IsReady(outbox[1]) /\ nInits = 1
  /\ Len(trace) >= 2 /\ Streaming(2) /\ trace[2].first < trace[2].last
  /\ outbox[2].kind = "response" /\ outbox[3].kind = "row"

\* The messages posted between call i and the call before it (before it,
\* for the first call).
Between(i) ==
  (IF i = 1 THEN 1 ELSE trace[i - 1].last + 1)..(trace[i].first - 1)

\* C19: self.onmessage runs each message to its response before the next
\* one is handled, also while further requests are waiting: the messages of
\* a call lie in one piece after the response of the call before it, they
\* are the row and end messages of that call's own exec, tagged with its
\* callback type, followed by its own response, and nothing lies between
\* the calls but the announcements of initWorker1API().
C19_CallsDoNotInterleave ==
  /\ \A i \in Dispatched :
       /\ \A k \in Between(i) : IsReady(outbox[k])
       /\ trace[i].first <= trace[i].last
       /\ Answers(i, trace[i].req)
       /\ \A k \in trace[i].first..(trace[i].last - 1) :
            /\ Streaming(i)
            /\ outbox[k].kind = "row"
            /\ outbox[k].type = trace[i].req.args.callback
  /\ trace /= <<>>
       => \A k \in (trace[Len(trace)].last + 1)..Len(outbox) :
            IsReady(outbox[k])

\* C19 witness: a streaming exec has just posted a row, the end message
\* and its response, right after the response to the request before it,
\* while the request posted after it was waiting in the queue.
C19_Witness ==
  /\ Len(trace) >= 2 /\ inbox /= <<>> /\ behind[1] >= 1
  /\ Streaming(Len(trace))
  /\ trace[Len(trace)].last >= trace[Len(trace)].first + 2
  /\ Ends(Len(trace)) = {trace[Len(trace)].last - 1}
  /\ outbox[trace[Len(trace)].first - 1].kind = "response"

\* Call i is an exec whose args object has a string callback.
Tagged(i) ==
  /\ trace[i].req.type = "exec" /\ trace[i].req.args.form = "object"
  /\ trace[i].req.args.callback /= Undefined

\* C20: the function exec installs as rc.callback is in no message: the
\* response to an exec with a string callback echoes the callback as the
\* request had it, in result.callback when the exec returned and in
\* result.input.args.callback when it threw, the empty string included;
\* and the row messages carry it as their type.
C20_CallbackRestored ==
  \A i \in Dispatched :
    Tagged(i)
      => /\ Response(i).type = "exec"
              => Response(i).result.callback = trace[i].req.args.callback
         /\ Response(i).type = "error"
              => Response(i).result.input.args.callback
                   = trace[i].req.args.callback
         /\ \A k \in Burst(i) :
              outbox[k].kind = "row"
                => /\ outbox[k].type = trace[i].req.args.callback
                   /\ outbox[k].row /= FunctionValue

\* C20 witness: an exec with the empty string as callback streamed a row
\* and then failed in the engine; the error's input has the empty string
\* back as callback.
C20_Witness ==
  \E i \in Dispatched :
    /\ Tagged(i) /\ trace[i].req.args.callback = ""
    /\ trace[i].db /= NoDb /\ trace[i].eng.execThrows
    /\ trace[i].eng.rows >= 1 /\ trace[i].first < trace[i].last
    /\ Response(i).type = "error"
    /\ Response(i).result.input.args.callback = ""

\* DB object db is registered: wState.dbs holds it under the id wState.idMap
\* recorded for it, and it is open.
Registered(db) ==
  /\ db \in DOMAIN idMap
  /\ idMap[db] \in DOMAIN dbs
  /\ dbs[idMap[db]] = db
  /\ heap[db].pointer /= NoPointer

\* C21: between two messages the default DB, when one is set, is an open DB
\* that wState.dbs holds under the id recorded for it, whatever opens,
\* closes and execs came before and also when db.fileName() or db.close()
\* threw during a close.
C21_DefaultIsRegistered ==
  defaultDb /= NoDb => Registered(defaultDb)
====
